---- MODULE Spec2Model ----
(***************************************************************************)
(* Model of zanbergify: the three posterize transforms (per pixel), the   *)
(* staleness test of the batch scheduler, and process_batch itself over   *)
(* a work folder whose files carry modification times.                    *)
(*                                                                         *)
(* Text is modelled as a tuple of one-character strings, so that          *)
(* Path.stem, Path.suffix, str.endswith and the f-string that builds an   *)
(* output name are computed, not assumed.                                 *)
(***************************************************************************)
EXTENDS Integers, Sequences, FiniteSets, TLC

VARIABLES
    call,         \* the last call of a pure function: its inputs and its result
    now,          \* the file system's clock (the mtime the next write gets)
    work,         \* work folder: entry name -> [isFile, mtime, ok]
    out,          \* work_folder/output: entry name -> [isFile, mtime, ok]
    sources,      \* the package's *.py files: name -> st_mtime
    workExists,   \* does the work folder exist
    sameDir,      \* output_folder is the work folder itself (argv[2])
    pc,           \* process_batch: idle, loop, posterize, painted, detailed, done, crashed
    source_mtime, \* process_batch's local
    image_files,  \* the discovered images the loop has not reached yet
    discovered,   \* the images this run discovered
    input_path,   \* the image the loop is at
    processed,    \* process_batch's counter
    skipped,      \* process_batch's counter
    printed,      \* the last line the run printed
    runs,         \* number of runs started
    events,       \* number of folder changes made from outside
    checked,      \* this run: one record per needs_processing call
    loadLog,      \* this run: one record per load_and_prepare_* call, in order
    writeLog      \* this run: one record per imwrite, in order

vars == <<call, now, work, out, sources, workExists, sameDir, pc, source_mtime,
          image_files, discovered, input_path, processed, skipped, printed, runs,
          events, checked, loadLog, writeLog>>

batchVars == <<now, work, out, sources, workExists, sameDir, pc, source_mtime,
               image_files, discovered, input_path, processed, skipped, printed,
               runs, events, checked, loadLog, writeLog>>

NoColor == <<>>     \* a colour argument left at None
NoFile == -1        \* the stat of a path that does not exist
Unassigned == -1    \* a local that no statement has bound yet
NoPath == <<>>      \* no image at hand

(***************************************************************************)
(* Bounds of the model.                                                    *)
(***************************************************************************)
MaxMtime == 2      \* mtimes given to needs_processing in the pure specification
MaxTime == 1       \* the clock of the batch specification stops here
MaxRuns == 2       \* runs of process_batch
MaxEvents == 2     \* folder changes from outside

(***************************************************************************)
(* Colours (BGR) and defaults.                                             *)
(***************************************************************************)
PixelMax == 255
AlphaCut == 10

Black == <<0, 0, 0>>
Magenta == <<147, 20, 255>>
Yellow == <<0, 215, 255>>
White == <<255, 255, 255>>

DEFAULT_COLOR_BG == Black
DEFAULT_COLOR_MIDTONE == Magenta
DEFAULT_COLOR_HIGHLIGHT == Yellow

THRESH_LOW == 90
THRESH_HIGH == 165

(***************************************************************************)
(* The presets of batch.py.  clip_limit is in tenths (3.0 -> 30).          *)
(***************************************************************************)
POSTERIZE_PRESETS ==
    << [name |-> <<"d","a","r","k">>, thresh_low |-> 60, thresh_high |-> 130],
       [name |-> <<"b","a","l","a","n","c","e","d">>, thresh_low |-> 90, thresh_high |-> 165],
       [name |-> <<"b","r","i","g","h","t">>, thresh_low |-> 120, thresh_high |-> 190],
       [name |-> <<"c","o","n","t","r","a","s","t">>, thresh_low |-> 70, thresh_high |-> 180],
       [name |-> <<"s","o","f","t">>, thresh_low |-> 100, thresh_high |-> 150] >>

PAINTED_PRESETS ==
    << [name |-> <<"p","a","i","n","t","e","d","_","s","m","o","o","t","h">>,
        thresh_low |-> 90, thresh_high |-> 165, key |-> <<25, 50>>],
       [name |-> <<"p","a","i","n","t","e","d","_","d","e","t","a","i","l">>,
        thresh_low |-> 90, thresh_high |-> 165, key |-> <<15, 35>>],
       [name |-> <<"p","a","i","n","t","e","d","_","a","b","s","t","r","a","c","t">>,
        thresh_low |-> 90, thresh_high |-> 165, key |-> <<35, 60>>] >>

DETAILED_PRESETS ==
    << [name |-> <<"d","e","t","a","i","l","e","d","_","s","t","a","n","d","a","r","d">>,
        thresh_low |-> 80, thresh_high |-> 160, key |-> <<30, 8>>],
       [name |-> <<"d","e","t","a","i","l","e","d","_","s","t","r","o","n","g">>,
        thresh_low |-> 70, thresh_high |-> 150, key |-> <<40, 8>>],
       [name |-> <<"d","e","t","a","i","l","e","d","_","f","i","n","e">>,
        thresh_low |-> 80, thresh_high |-> 160, key |-> <<25, 4>>] >>

Range(s) == {s[i] : i \in DOMAIN s}

ALL_PRESET_NAMES ==
    [i \in 1..Len(POSTERIZE_PRESETS) |-> POSTERIZE_PRESETS[i].name]
    \o [i \in 1..Len(PAINTED_PRESETS) |-> PAINTED_PRESETS[i].name]
    \o [i \in 1..Len(DETAILED_PRESETS) |-> DETAILED_PRESETS[i].name]

(***************************************************************************)
(* The posterize transforms, for one pixel.  A colour argument of None     *)
(* takes the module default.                                               *)
(***************************************************************************)
OrDefault(c, d) == IF c = NoColor THEN d ELSE c

\* posterize.py: thresholds and palette are the function's own constants.
create_posterized_portrait(gray_blurred, alpha) ==
    LET final0 == DEFAULT_COLOR_BG
        mask_mid == gray_blurred >= THRESH_LOW /\ gray_blurred < THRESH_HIGH
        mask_high == gray_blurred >= THRESH_HIGH
        mask_subject == alpha > AlphaCut
        final1 == IF mask_mid /\ mask_subject THEN DEFAULT_COLOR_MIDTONE ELSE final0
    IN  IF mask_high /\ mask_subject THEN DEFAULT_COLOR_HIGHLIGHT ELSE final1

apply_painted_posterize(gray, alpha_eroded, thresh_low, thresh_high, color_bg, color_midtone, color_highlight) ==
    LET bg == OrDefault(color_bg, DEFAULT_COLOR_BG)
        mid == OrDefault(color_midtone, DEFAULT_COLOR_MIDTONE)
        hi == OrDefault(color_highlight, DEFAULT_COLOR_HIGHLIGHT)
        final0 == bg
        mask_mid == gray >= thresh_low /\ gray < thresh_high
        mask_high == gray >= thresh_high
        mask_subject == alpha_eroded # 0
        final1 == IF mask_mid /\ mask_subject THEN mid ELSE final0
    IN  IF mask_high /\ mask_subject THEN hi ELSE final1

\* a midtone mask that leaves thresh_low out
apply_detailed_posterize_open_low(enhanced_gray, alpha, thresh_low, thresh_high, color_bg, color_midtone, color_highlight) ==
    LET bg == OrDefault(color_bg, DEFAULT_COLOR_BG)
        mid == OrDefault(color_midtone, DEFAULT_COLOR_MIDTONE)
        hi == OrDefault(color_highlight, DEFAULT_COLOR_HIGHLIGHT)
        final0 == <<0, 0, 0>>
        mask_shadow == enhanced_gray < thresh_low
        mask_mid == enhanced_gray > thresh_low /\ enhanced_gray < thresh_high
        mask_high == enhanced_gray >= thresh_high
        mask_subject == alpha > AlphaCut
        final1 == IF mask_shadow /\ mask_subject THEN bg ELSE final0
        final2 == IF mask_mid /\ mask_subject THEN mid ELSE final1
    IN  IF mask_high /\ mask_subject THEN hi ELSE final2

apply_detailed_posterize(enhanced_gray, alpha, thresh_low, thresh_high, color_bg, color_midtone, color_highlight) ==
    LET bg == OrDefault(color_bg, DEFAULT_COLOR_BG)
        mid == OrDefault(color_midtone, DEFAULT_COLOR_MIDTONE)
        hi == OrDefault(color_highlight, DEFAULT_COLOR_HIGHLIGHT)
        final0 == <<0, 0, 0>>
        mask_shadow == enhanced_gray < thresh_low
        mask_mid == enhanced_gray >= thresh_low /\ enhanced_gray < thresh_high
        mask_high == enhanced_gray >= thresh_high
        mask_subject == alpha > AlphaCut
        final1 == IF mask_shadow /\ mask_subject THEN bg ELSE final0
        final2 == IF mask_mid /\ mask_subject THEN mid ELSE final1
    IN  IF mask_high /\ mask_subject THEN hi ELSE final2

(***************************************************************************)
(* Staleness.  A stat result is the file's mtime, or NoFile.                *)
(***************************************************************************)
SetMax(S) == CHOOSE x \in S : \A y \in S : y <= x

\* source_files: the globbed files, name -> st_mtime
get_latest_source_mtime(source_files) ==
    IF DOMAIN source_files = {} THEN 0
    ELSE SetMax({source_files[f] : f \in DOMAIN source_files})

\* an output as old as its input taken for stale
needs_processing_not_strict(input_stat, output_stat, src_mtime) ==
    IF output_stat = NoFile THEN "True"
    ELSE IF input_stat = NoFile THEN "FileNotFoundError"
    ELSE IF input_stat >= output_stat THEN "True"
    ELSE IF src_mtime > output_stat THEN "True"
    ELSE "False"

\* "True" / "False", or "FileNotFoundError" when input_path.stat() raises
needs_processing(input_stat, output_stat, src_mtime) ==
    IF output_stat = NoFile THEN "True"
    ELSE IF input_stat = NoFile THEN "FileNotFoundError"
    ELSE IF input_stat > output_stat THEN "True"
    ELSE IF src_mtime > output_stat THEN "True"
    ELSE "False"

(***************************************************************************)
(* Inputs of the pure specification.                                       *)
(***************************************************************************)
PresetThresholds ==
    {<<p.thresh_low, p.thresh_high>> :
        p \in Range(POSTERIZE_PRESETS) \cup Range(PAINTED_PRESETS) \cup Range(DETAILED_PRESETS)}

\* the presets' pairs, the same pairs reversed and collapsed (low >= high is
\* not rejected by the code), and the ends of the range
ThresholdInputs ==
    PresetThresholds
    \cup {<<t[2], t[1]>> : t \in PresetThresholds}
    \cup {<<t[1], t[1]>> : t \in PresetThresholds}
    \cup {<<0, PixelMax>>, <<0, 1>>, <<PixelMax - 1, PixelMax>>}

AlphaInputs == {0, AlphaCut, AlphaCut + 1, PixelMax}

Palettes == { <<NoColor, NoColor, NoColor>>, <<White, NoColor, NoColor>>, <<Magenta, White, Black>> }

SourceNames == {"batch.py", "posterize.py"}

StatInputs == {NoFile} \cup (0..MaxMtime)

\* each behaviour of the pure specification makes one call
NoCall == [fn |-> "none"]

CallPlain ==
    /\ call = NoCall
    /\ \E b \in 0..PixelMax, a \in AlphaInputs :
         call' = [fn |-> "plain", gray |-> b, alpha |-> a, subject |-> a > AlphaCut,
                  low |-> THRESH_LOW, high |-> THRESH_HIGH,
                  bg |-> DEFAULT_COLOR_BG, mid |-> DEFAULT_COLOR_MIDTONE,
                  hi |-> DEFAULT_COLOR_HIGHLIGHT,
                  result |-> create_posterized_portrait(b, a)]
    /\ UNCHANGED batchVars

CallPainted ==
    /\ call = NoCall
    /\ \E b \in 0..PixelMax, a \in {0, 1}, t \in ThresholdInputs, p \in Palettes :
         call' = [fn |-> "painted", gray |-> b, alpha |-> a, subject |-> a # 0,
                  low |-> t[1], high |-> t[2],
                  bg |-> OrDefault(p[1], DEFAULT_COLOR_BG),
                  mid |-> OrDefault(p[2], DEFAULT_COLOR_MIDTONE),
                  hi |-> OrDefault(p[3], DEFAULT_COLOR_HIGHLIGHT),
                  result |-> apply_painted_posterize(b, a, t[1], t[2], p[1], p[2], p[3])]
    /\ UNCHANGED batchVars

CallDetailed ==
    /\ call = NoCall
    /\ \E b \in 0..PixelMax, a \in AlphaInputs, t \in ThresholdInputs, p \in Palettes :
         call' = [fn |-> "detailed", gray |-> b, alpha |-> a, subject |-> a > AlphaCut,
                  low |-> t[1], high |-> t[2],
                  bg |-> OrDefault(p[1], DEFAULT_COLOR_BG),
                  mid |-> OrDefault(p[2], DEFAULT_COLOR_MIDTONE),
                  hi |-> OrDefault(p[3], DEFAULT_COLOR_HIGHLIGHT),
                  result |-> apply_detailed_posterize(b, a, t[1], t[2], p[1], p[2], p[3])]
    /\ UNCHANGED batchVars

CallNeedsProcessing ==
    /\ call = NoCall
    /\ \E i \in StatInputs, o \in StatInputs, D \in SUBSET SourceNames :
         \E src \in [D -> 0..MaxMtime] :
            call' = [fn |-> "needs_processing", input |-> i, output |-> o,
                     source_files |-> src,
                     result |-> needs_processing(i, o, get_latest_source_mtime(src))]
    /\ UNCHANGED batchVars

(***************************************************************************)
(* Text: pathlib's stem and suffix, str.lower, str.endswith.               *)
(***************************************************************************)
SetMin(S) == CHOOSE x \in S : \A y \in S : x <= y

\* str.rfind("."), counted from 1; 0 when there is no dot
rfind_dot(name) ==
    LET dots == {i \in 1..Len(name) : name[i] = "."}
    IN  IF dots = {} THEN 0 ELSE SetMax(dots)

\* the last dot splits the name unless it is the first or the last character
suffix(name) ==
    LET i == rfind_dot(name)
    IN  IF 1 < i /\ i < Len(name) THEN SubSeq(name, i, Len(name)) ELSE <<>>

stem(name) ==
    LET i == rfind_dot(name)
    IN  IF 1 < i /\ i < Len(name) THEN SubSeq(name, 1, i - 1) ELSE name

lower_char(c) ==
    CASE c = "J" -> "j" [] c = "P" -> "p" [] c = "G" -> "g" [] c = "N" -> "n"
      [] OTHER -> c

lower(s) == [i \in 1..Len(s) |-> lower_char(s[i])]

endswith(s, tail) ==
    /\ Len(tail) <= Len(s)
    /\ SubSeq(s, Len(s) - Len(tail) + 1, Len(s)) = tail

IMAGE_EXTENSIONS ==
    { <<".","j","p","g">>, <<".","j","p","e","g">>, <<".","p","n","g">>,
      <<".","w","e","b","p">>, <<".","b","m","p">> }

\* f"{input_path.stem}_{preset_name}.png", inside output_dir
get_output_path(input_name, preset_name) ==
    stem(input_name) \o <<"_">> \o preset_name \o <<".","p","n","g">>

\* only the posterize presets' suffixes are known
is_generated_file_plain_only(name) ==
    LET st == stem(name)
    IN  IF \E i \in 1..Len(POSTERIZE_PRESETS) :
              endswith(st, <<"_">> \o POSTERIZE_PRESETS[i].name)
        THEN TRUE
        ELSE IF endswith(st, <<"_","p","o","s","t","e","r","i","z","e","d">>)
        THEN TRUE
        ELSE FALSE

is_generated_file(name) ==
    LET st == stem(name)
    IN  IF \E i \in 1..Len(ALL_PRESET_NAMES) : endswith(st, <<"_">> \o ALL_PRESET_NAMES[i])
        THEN TRUE
        ELSE IF endswith(st, <<"_","p","o","s","t","e","r","i","z","e","d">>)
        THEN TRUE
        ELSE FALSE

\* the comprehension of process_batch over work_folder.iterdir()
Discover(folder) ==
    {f \in DOMAIN folder :
        /\ folder[f].isFile
        /\ lower(suffix(f)) \in IMAGE_EXTENSIONS
        /\ ~is_generated_file(f)}

(***************************************************************************)
(* Folders.                                                                *)
(***************************************************************************)
EmptyFolder == [f \in {} |-> 0]

Stat(folder, name) == IF name \in DOMAIN folder THEN folder[name].mtime ELSE NoFile

Put(folder, names, entry) ==
    [f \in DOMAIN folder \cup names |-> IF f \in names THEN entry ELSE folder[f]]

Remove(folder, name) == [f \in DOMAIN folder \ {name} |-> folder[f]]

OutputDirName == <<"o","u","t","p","u","t">>

\* the folder the run writes to and tests for outputs
OutputFolder == IF sameDir THEN work ELSE out

\* what the outside world puts into the work folder: two images with one
\* stem, and an image with an upper-case extension that may hold bytes that
\* are no image
InputFiles ==
    { [name |-> <<"a",".","j","p","g">>, ok |-> TRUE],
      [name |-> <<"a",".","p","n","g">>, ok |-> TRUE],
      [name |-> <<"b",".","J","P","G">>, ok |-> TRUE],
      [name |-> <<"b",".","J","P","G">>, ok |-> FALSE] }

InputNames == {f.name : f \in InputFiles}

\* what else lies in the work folder: a text file, a file named like a
\* generated one, a legacy output, and a directory named like an image
Clutter ==
    ( <<"n",".","t","x","t">> :> [isFile |-> TRUE, mtime |-> 0, ok |-> FALSE]
   @@ <<"c","_","s","o","f","t",".","j","p","g">> :> [isFile |-> TRUE, mtime |-> 0, ok |-> TRUE]
   @@ <<"c","_","p","o","s","t","e","r","i","z","e","d",".","p","n","g">>
         :> [isFile |-> TRUE, mtime |-> 0, ok |-> TRUE]
   @@ <<"e",".","p","n","g">> :> [isFile |-> FALSE, mtime |-> 0, ok |-> FALSE] )

\* the work folder before the first run: no image, or one file with an
\* image's name whose bytes are no image
InitialFolders ==
    { Clutter,
      Clutter @@ (<<"b",".","J","P","G">> :> [isFile |-> TRUE, mtime |-> 0, ok |-> FALSE]) }

(***************************************************************************)
(* Loading an image: open, rembg's remove, PIL's Image.open.  Only         *)
(* FileNotFoundError is caught; remove / Image.open on bytes that are no   *)
(* image raise another exception, which leaves the function.               *)
(* result: "None" (the sentinel), "raise", or "ok"; removed: calls of      *)
(* remove.                                                                 *)
(***************************************************************************)
\* zanbergify.posterize.load_and_prepare_image: on_bad_bytes is what it does
\* with bytes that are no image, "raise" (section 4.1: surfaced) or "None"
\* (section 7: recovered locally)
load_and_prepare_image(folder, name, on_bad_bytes) ==
    IF name \notin DOMAIN folder THEN [result |-> "None", removed |-> 0]
    ELSE IF ~folder[name].ok THEN [result |-> on_bad_bytes, removed |-> 1]
    ELSE [result |-> "ok", removed |-> 1]

load_and_prepare_image_painted(folder, name) ==
    IF name \notin DOMAIN folder THEN [result |-> "None", removed |-> 0]
    ELSE IF ~folder[name].ok THEN [result |-> "raise", removed |-> 1]
    ELSE [result |-> "ok", removed |-> 1]

load_and_prepare_image_detailed(folder, name) ==
    IF name \notin DOMAIN folder THEN [result |-> "None", removed |-> 0]
    ELSE IF ~folder[name].ok THEN [result |-> "raise", removed |-> 1]
    ELSE [result |-> "ok", removed |-> 1]

Load(family, folder, name, on_bad_bytes) ==
    CASE family = "posterize" -> load_and_prepare_image(folder, name, on_bad_bytes)
      [] family = "painted" -> load_and_prepare_image_painted(folder, name)
      [] family = "detailed" -> load_and_prepare_image_detailed(folder, name)

(***************************************************************************)
(* One family's part of the loop body of process_batch.                    *)
(***************************************************************************)
PlainKey == <<>>

\* the loop that builds <family>_to_process: it stops at the first call of
\* needs_processing that raises
RECURSIVE StalenessLoop(_, _, _, _)
StalenessLoop(family, presets, i, acc) ==
    IF i > Len(presets) \/ acc.raised THEN acc
    ELSE LET path == get_output_path(input_path, presets[i].name)
             ist == Stat(work, input_path)
             ost == Stat(OutputFolder, path)
             r == needs_processing(ist, ost, source_mtime)
             rec == [input |-> input_path, family |-> family, preset |-> presets[i].name,
                     input_stat |-> ist, output_stat |-> ost, src |-> source_mtime,
                     result |-> r, writes |-> Len(writeLog)]
         IN  StalenessLoop(family, presets, i + 1,
                [to_process |-> IF r = "True" THEN Append(acc.to_process, presets[i])
                                ELSE acc.to_process,
                 checks |-> acc.checks \cup {rec},
                 raised |-> r = "FileNotFoundError"])

\* by_params: key -> list, in insertion order
RECURSIVE by_params(_)
by_params(to_process) ==
    IF to_process = <<>> THEN <<>>
    ELSE LET before == by_params(SubSeq(to_process, 1, Len(to_process) - 1))
             p == to_process[Len(to_process)]
             at == {j \in 1..Len(before) : before[j].key = p.key}
         IN  IF at = {} THEN Append(before, [key |-> p.key, presets |-> <<p>>])
             ELSE [before EXCEPT ![SetMin(at)].presets = Append(@, p)]

\* one load for every stale preset, no sharing
Groups_per_preset(family, to_process) ==
    [j \in 1..Len(to_process) |->
        [key |-> IF family = "posterize" THEN <<>> ELSE to_process[j].key,
         presets |-> <<to_process[j]>>]]

\* the posterize family loads once for all of its stale presets
Groups(family, to_process) ==
    IF family = "posterize"
    THEN IF to_process = <<>> THEN <<>>
         ELSE << [key |-> PlainKey, presets |-> to_process] >>
    ELSE by_params(to_process)

WritesOf(family, key, presets) ==
    [j \in 1..Len(presets) |->
        [input |-> input_path, family |-> family, key |-> key,
         preset |-> presets[j].name,
         path |-> get_output_path(input_path, presets[j].name)]]

\* the loop over the groups: load, then one imwrite per preset of the group
RECURSIVE GroupLoop(_, _, _, _)
GroupLoop(family, groups, on_bad_bytes, acc) ==
    IF groups = <<>> \/ acc.raised THEN acc
    ELSE LET g == Head(groups)
             ld == Load(family, work, input_path, on_bad_bytes)
             rec == [input |-> input_path, family |-> family, key |-> g.key,
                     input_stat |-> Stat(work, input_path),
                     result |-> ld.result, removed |-> ld.removed]
         IN  GroupLoop(family, Tail(groups), on_bad_bytes,
                [loads |-> Append(acc.loads, rec),
                 writes |-> IF ld.result = "ok"
                            THEN acc.writes \o WritesOf(family, g.key, g.presets)
                            ELSE acc.writes,
                 raised |-> ld.result = "raise"])

\* the loads of painted.py and detailed.py let the exception through
BadBytesOutcomes(family) == IF family = "posterize" THEN {"raise", "None"} ELSE {"raise"}

FileEntry(ok) == [isFile |-> TRUE, mtime |-> now, ok |-> ok]
DirEntry == [isFile |-> FALSE, mtime |-> 0, ok |-> FALSE]

FamilyBlock(family, presets, nextpc) ==
    \E st \in {StalenessLoop(family, presets, 1,
                             [to_process |-> <<>>, checks |-> {}, raised |-> FALSE])} :
    \E on_bad_bytes \in BadBytesOutcomes(family) :
    \E gl \in {IF st.raised THEN [loads |-> <<>>, writes |-> <<>>, raised |-> TRUE]
               ELSE GroupLoop(family, Groups(family, st.to_process), on_bad_bytes,
                              [loads |-> <<>>, writes |-> <<>>, raised |-> FALSE])} :
    \E paths \in {{gl.writes[j].path : j \in 1..Len(gl.writes)}} :
        /\ checked' = checked \cup st.checks
        /\ loadLog' = loadLog \o gl.loads
        /\ writeLog' = writeLog \o gl.writes
        /\ IF sameDir
           THEN work' = Put(work, paths, FileEntry(TRUE)) /\ out' = out
           ELSE out' = Put(out, paths, FileEntry(TRUE)) /\ work' = work
        /\ processed' = processed + Len(gl.writes)
        /\ IF gl.raised
           THEN pc' = "crashed" /\ printed' = "Traceback" /\ skipped' = skipped
           ELSE /\ pc' = nextpc
                /\ printed' = printed
                /\ skipped' = skipped + (Len(presets) - Len(st.to_process))
        /\ UNCHANGED <<call, now, sources, workExists, sameDir, source_mtime,
                       image_files, discovered, input_path, runs, events>>

(***************************************************************************)
(* process_batch.                                                          *)
(***************************************************************************)
Idle == pc \in {"idle", "done", "crashed"}

BeginRun ==
    /\ Idle
    /\ runs < MaxRuns
    /\ runs' = runs + 1
    /\ checked' = {}
    /\ loadLog' = <<>>
    /\ writeLog' = <<>>
    /\ input_path' = NoPath

\* the work folder does not exist: create it and return
StartCreate ==
    /\ BeginRun
    /\ ~workExists
    /\ workExists' = TRUE
    /\ printed' = "Add images to work_folder/ and run again."
    /\ pc' = "done"
    /\ processed' = Unassigned /\ skipped' = Unassigned
    /\ image_files' = {} /\ discovered' = {}
    /\ UNCHANGED <<call, now, work, out, sources, sameDir, source_mtime, events>>

\* the empty run going through the counters and the final print
StartEmpty_with_tally ==
    /\ Idle
    /\ runs < MaxRuns
    /\ runs' = runs + 1
    /\ checked' = {}
    /\ loadLog' = <<>>
    /\ writeLog' = <<>>
    /\ input_path' = <<>>
    /\ workExists
    /\ Discover(work) = {}
    /\ source_mtime' = get_latest_source_mtime(sources)
    /\ printed' = "Done"
    /\ pc' = "done"
    /\ processed' = 0 /\ skipped' = 0
    /\ image_files' = {} /\ discovered' = {}
    /\ UNCHANGED <<call, now, work, out, sources, workExists, sameDir, events>>

\* no image in the work folder: return before the counters exist
StartEmpty ==
    /\ BeginRun
    /\ workExists
    /\ Discover(work) = {}
    /\ source_mtime' = get_latest_source_mtime(sources)
    /\ printed' = "No image files found"
    /\ pc' = "done"
    /\ processed' = Unassigned /\ skipped' = Unassigned
    /\ image_files' = {} /\ discovered' = {}
    /\ UNCHANGED <<call, now, work, out, sources, workExists, sameDir, events>>

StartRun ==
    /\ BeginRun
    /\ workExists
    /\ \E found \in {Discover(work)} :
         /\ found # {}
         /\ image_files' = found
         /\ discovered' = found
    /\ source_mtime' = get_latest_source_mtime(sources)
    /\ work' = IF sameDir \/ OutputDirName \in DOMAIN work THEN work
               ELSE Put(work, {OutputDirName}, DirEntry)
    /\ processed' = 0 /\ skipped' = 0
    /\ printed' = ""
    /\ pc' = "loop"
    /\ UNCHANGED <<call, now, out, sources, workExists, sameDir, events>>

\* iterdir gives the files in no particular order
PickImage ==
    /\ pc = "loop"
    /\ \E f \in image_files :
         /\ input_path' = f
         /\ image_files' = image_files \ {f}
    /\ pc' = "posterize"
    /\ UNCHANGED <<call, now, work, out, sources, workExists, sameDir, source_mtime,
                   discovered, processed, skipped, printed, runs, events, checked,
                   loadLog, writeLog>>

PosterizeFamily == pc = "posterize" /\ FamilyBlock("posterize", POSTERIZE_PRESETS, "painted")

PaintedFamily == pc = "painted" /\ FamilyBlock("painted", PAINTED_PRESETS, "detailed")

DetailedFamily == pc = "detailed" /\ FamilyBlock("detailed", DETAILED_PRESETS, "loop")

Finish ==
    /\ pc = "loop"
    /\ image_files = {}
    /\ printed' = "Done"
    /\ pc' = "done"
    /\ UNCHANGED <<call, now, work, out, sources, workExists, sameDir, source_mtime,
                   image_files, discovered, input_path, processed, skipped, runs,
                   events, checked, loadLog, writeLog>>

(***************************************************************************)
(* The outside world.                                                      *)
(***************************************************************************)
\* a file is put into the work folder, or an existing one is rewritten, at
\* the time of the last change or one tick later
PutFile ==
    /\ Idle /\ workExists /\ events < MaxEvents
    /\ \E f \in InputFiles, dt \in {0, 1} :
         /\ now + dt <= MaxTime
         /\ now' = now + dt
         /\ work' = Put(work, {f.name}, [isFile |-> TRUE, mtime |-> now', ok |-> f.ok])
    /\ pc' = "idle"
    /\ events' = events + 1
    /\ UNCHANGED <<call, out, sources, workExists, sameDir, source_mtime,
                   image_files, discovered, input_path, processed, skipped, printed,
                   runs, checked, loadLog, writeLog>>

\* a file disappears, possibly while a run is at work
RemoveFile ==
    /\ events < MaxEvents
    /\ \E name \in InputNames \cap DOMAIN work :
         /\ Idle \/ name \in image_files \cup {input_path}
         /\ work' = Remove(work, name)
    /\ pc' = IF Idle THEN "idle" ELSE pc
    /\ events' = events + 1
    /\ UNCHANGED <<call, now, out, sources, workExists, sameDir, source_mtime,
                   image_files, discovered, input_path, processed, skipped, printed,
                   runs, checked, loadLog, writeLog>>

\* a source file of the package is edited
TouchSource ==
    /\ Idle /\ events < MaxEvents
    /\ \E f \in DOMAIN sources, dt \in {0, 1} :
         /\ now + dt <= MaxTime
         /\ now' = now + dt
         /\ sources' = [sources EXCEPT ![f] = now']
         /\ sources' # sources
    /\ pc' = "idle"
    /\ events' = events + 1
    /\ UNCHANGED <<call, work, out, workExists, sameDir, source_mtime,
                   image_files, discovered, input_path, processed, skipped, printed,
                   runs, checked, loadLog, writeLog>>

(***************************************************************************)
(* Specifications.                                                         *)
(***************************************************************************)
BatchInit ==
    /\ now = 0
    /\ workExists \in BOOLEAN
    /\ work \in (IF workExists THEN InitialFolders ELSE {EmptyFolder})
    /\ out = EmptyFolder
    /\ sources = [f \in SourceNames |-> 0]
    /\ sameDir \in BOOLEAN
    /\ pc = "idle"
    /\ source_mtime = 0
    /\ image_files = {}
    /\ discovered = {}
    /\ input_path = NoPath
    /\ processed = Unassigned
    /\ skipped = Unassigned
    /\ printed = ""
    /\ runs = 0
    /\ events = 0
    /\ checked = {}
    /\ loadLog = <<>>
    /\ writeLog = <<>>

Init == call = NoCall /\ BatchInit

Next ==
    \/ StartCreate
    \/ StartEmpty
    \/ StartRun
    \/ PickImage
    \/ PosterizeFamily
    \/ PaintedFamily
    \/ DetailedFamily
    \/ Finish
    \/ PutFile
    \/ RemoveFile
    \/ TouchSource

Spec == Init /\ [][Next]_vars

\* the pure functions, applied to inputs drawn from bounded sets
PureInit ==
    /\ call = NoCall
    /\ now = 0
    /\ work = EmptyFolder
    /\ out = EmptyFolder
    /\ sources = [f \in SourceNames |-> 0]
    /\ workExists = TRUE
    /\ sameDir = FALSE
    /\ pc = "idle"
    /\ source_mtime = 0
    /\ image_files = {}
    /\ discovered = {}
    /\ input_path = NoPath
    /\ processed = Unassigned
    /\ skipped = Unassigned
    /\ printed = ""
    /\ runs = 0
    /\ events = 0
    /\ checked = {}
    /\ loadLog = <<>>
    /\ writeLog = <<>>

PureNext ==
    \/ CallPlain
    \/ CallPainted
    \/ CallDetailed
    \/ CallNeedsProcessing

SpecPure == PureInit /\ [][PureNext]_vars

(***************************************************************************)
(* Properties of the pure functions (checked under SpecPure).              *)
(***************************************************************************)
IsPosterizeCall == call.fn \in {"plain", "painted", "detailed"}

BandColour(c) ==
    IF c.gray < c.low THEN c.bg
    ELSE IF c.gray < c.high THEN c.mid
    ELSE c.hi

\* C1: with low < high, a subject pixel of brightness b gets the shadow /
\* background colour when b < low, the midtone colour when low <= b < high and
\* the highlight colour when b >= high, in each of the three posterize
\* functions; with a palette of three different colours the result is the
\* colour of exactly one band.
C1_ThreeBands ==
    (IsPosterizeCall /\ call.subject /\ call.low < call.high)
        => /\ call.result = BandColour(call)
           /\ Cardinality({call.bg, call.mid, call.hi}) = 3
                => Cardinality({k \in {"bg", "mid", "hi"} :
                        call.result = (CASE k = "bg" -> call.bg
                                         [] k = "mid" -> call.mid
                                         [] k = "hi" -> call.hi)}) = 1

\* a subject pixel exactly at thresh_low, painted midtone by the detailed
\* transform under a palette that is not the default one
C1_Witness ==
    /\ call.fn = "detailed"
    /\ call.subject
    /\ call.low < call.high
    /\ call.gray = call.low
    /\ call.bg # DEFAULT_COLOR_BG
    /\ call.result = call.mid

\* C2: every pixel outside the subject mask comes out in the configured
\* background colour, in each posterize function and for every palette.
C2_BackgroundOutsideSubject ==
    (IsPosterizeCall /\ ~call.subject) => call.result = call.bg

\* C3: needs_processing is true exactly when the output does not exist, or
\* the input's mtime is strictly newer than the output's, or some source
\* file's mtime is strictly newer than the output's (the input exists, or
\* the output does not, so that no stat raises).
C3_NeedsProcessing ==
    (call.fn = "needs_processing" /\ (call.input # NoFile \/ call.output = NoFile))
        => call.result =
              (IF \/ call.output = NoFile
                  \/ call.input > call.output
                  \/ \E f \in DOMAIN call.source_files :
                        call.source_files[f] > call.output
               THEN "True" ELSE "False")

\* an output exactly as old as its input and as the newest source file: fresh
C3_Witness ==
    /\ call.fn = "needs_processing"
    /\ call.output # NoFile
    /\ call.input = call.output
    /\ DOMAIN call.source_files # {}
    /\ \E f \in DOMAIN call.source_files : call.source_files[f] = call.output
    /\ call.result = "False"

(***************************************************************************)
(* Properties of process_batch (checked under Spec).                       *)
(***************************************************************************)
RunEnded == pc \in {"done", "crashed"}

Families == {"posterize", "painted", "detailed"}

PresetsOf(family) ==
    CASE family = "posterize" -> POSTERIZE_PRESETS
      [] family = "painted" -> PAINTED_PRESETS
      [] family = "detailed" -> DETAILED_PRESETS

KeyOf(family, preset) == IF family = "posterize" THEN PlainKey ELSE preset.key

KeysOf(family) == {KeyOf(family, p) : p \in Range(PresetsOf(family))}

PresetNames == Range(ALL_PRESET_NAMES)

LoadsOf(i, family, key) ==
    {j \in DOMAIN loadLog :
        loadLog[j].input = i /\ loadLog[j].family = family /\ loadLog[j].key = key}

RemovesOf(i) == {j \in DOMAIN loadLog : loadLog[j].input = i /\ loadLog[j].removed = 1}

FoundStale(i, name) ==
    \E c \in checked : c.input = i /\ c.preset = name /\ c.result = "True"

Asked(i, name) == \E c \in checked : c.input = i /\ c.preset = name

\* C4: a pair whose output exists and is newer than its input and than the
\* sources is found not stale by the run that tests it; and when a run has
\* ended, no image it discovered (still there, and a real image) is left
\* with an output older than the image: an input touched after its output
\* was written has been regenerated.
C4_StalenessAcrossRuns ==
    /\ \A c \in checked :
          (c.output_stat # NoFile /\ c.input_stat # NoFile
             /\ c.output_stat > c.input_stat /\ c.output_stat > c.src)
          => c.result = "False"
    /\ RunEnded =>
          \A i \in discovered \cap DOMAIN work : \A name \in PresetNames :
             (work[i].ok /\ Stat(OutputFolder, get_output_path(i, name)) # NoFile)
             => work[i].mtime <= Stat(OutputFolder, get_output_path(i, name))

\* C5: in one run rembg's remove is called at most once for an image.
C5_RemoveOncePerImage ==
    \A i \in discovered : Cardinality(RemovesOf(i)) <= 1

\* C5, as amended: remove is called once by every load that opens the file,
\* and a run loads an image at most once for the posterize family and once
\* for every parameter group of the painted and of the detailed family; a
\* written output comes from the one load of its own group.
C5_RemoveOncePerLoad ==
    /\ \A i \in discovered : \A family \in Families : \A key \in KeysOf(family) :
          Cardinality(LoadsOf(i, family, key)) <= 1
    /\ \A j \in DOMAIN loadLog :
          /\ loadLog[j].key \in KeysOf(loadLog[j].family)
          /\ loadLog[j].removed = (IF loadLog[j].input_stat = NoFile THEN 0 ELSE 1)
    /\ \A j \in DOMAIN writeLog :
          \E k \in LoadsOf(writeLog[j].input, writeLog[j].family, writeLog[j].key) :
             loadLog[k].result = "ok"

\* one run in which remove ran seven times for one image
C5_Witness ==
    /\ pc = "done"
    /\ printed = "Done"
    /\ \E i \in discovered : Cardinality(RemovesOf(i)) = 7

\* C6: when a run has ended, every discovered image has had, in every
\* family, exactly one load for each parameter tuple that has a stale preset
\* (found stale by the run, or never tested by it and without an output),
\* and no load for a tuple that has none.
C6_PreprocessOncePerGroup ==
    RunEnded =>
       \A i \in discovered : \A family \in Families : \A key \in KeysOf(family) :
          Cardinality(LoadsOf(i, family, key)) =
             (IF \E p \in Range(PresetsOf(family)) :
                    /\ KeyOf(family, p) = key
                    /\ \/ FoundStale(i, p.name)
                       \/ /\ ~Asked(i, p.name)
                          /\ Stat(OutputFolder, get_output_path(i, p.name)) = NoFile
              THEN 1 ELSE 0)

\* C7: a load that fails does not end the run, and after it the run attempts
\* no further load and no write for that image.
C7_LoadFailureSkipsImage ==
    /\ pc # "crashed"
    /\ \A j, k \in DOMAIN loadLog :
          (j < k /\ loadLog[j].result # "ok") => loadLog[k].input # loadLog[j].input
    /\ \A j \in DOMAIN writeLog :
          \A k \in DOMAIN loadLog :
             loadLog[k].input = writeLog[j].input => loadLog[k].result = "ok"

\* C8: every file a run writes has a generated file's name, and while a run
\* is at work or has just ended the work folder holds no image that the run
\* did not discover: what it wrote is no input of the next run.
C8_OutputsNeverDiscovered ==
    /\ \A j \in DOMAIN writeLog : is_generated_file(writeLog[j].path)
    /\ pc # "idle" => Discover(work) \subseteq discovered

\* a second run, writing into the work folder itself, that found the outputs
\* of the first one up to date and discovered the same single image
C8_Witness ==
    /\ sameDir
    /\ runs = 2
    /\ pc = "done"
    /\ printed = "Done"
    /\ processed = 0
    /\ skipped = Len(ALL_PRESET_NAMES)
    /\ Cardinality(discovered) = 1
    /\ \A name \in PresetNames :
          \E i \in discovered : get_output_path(i, name) \in DOMAIN work

\* C9: two different (input, preset) pairs of the discovered images have
\* different output files.
C9_DistinctOutputs ==
    \A i1 \in discovered, i2 \in discovered : \A n1 \in PresetNames, n2 \in PresetNames :
       <<i1, n1>> # <<i2, n2>> => get_output_path(i1, n1) # get_output_path(i2, n2)

CreatedMsg == "Add images to work_folder/ and run again."

\* a run on an existing work folder that found no image has ended
EmptyRunEnded == RunEnded /\ runs > 0 /\ discovered = {} /\ printed # CreatedMsg

\* C10: a run on an existing work folder without images reports
\* generated = 0 and skipped = 0, writes nothing and ends normally.
C10_EmptyFolderReportsZero ==
    EmptyRunEnded =>
       /\ printed = "Done" /\ processed = 0 /\ skipped = 0
       /\ writeLog = <<>>
       /\ pc = "done"

\* C10, as amended: such a run prints "No image files found" and returns
\* before its counters exist, so no tally is printed; it loads nothing,
\* writes nothing and ends normally.
C10_EmptyFolderNoTally ==
    EmptyRunEnded =>
       /\ printed = "No image files found"
       /\ processed = Unassigned /\ skipped = Unassigned
       /\ loadLog = <<>> /\ writeLog = <<>>
       /\ pc = "done"

\* the run on a folder that holds files, none of them a recognised image
C10_Witness ==
    /\ EmptyRunEnded
    /\ DOMAIN work # {}
    /\ printed = "No image files found"

\* the parameter tuple of the load that serves a tested pair
GroupKey(c) ==
    CHOOSE key \in KeysOf(c.family) :
       \E p \in Range(PresetsOf(c.family)) : p.name = c.preset /\ KeyOf(c.family, p) = key

LoadedOk(c) == \E k \in LoadsOf(c.input, c.family, GroupKey(c)) : loadLog[k].result = "ok"

WritesOfPair(i, name) ==
    {j \in DOMAIN writeLog : writeLog[j].input = i /\ writeLog[j].preset = name}

WritesTo(path) == {j \in DOMAIN writeLog : writeLog[j].path = path}

\* C11: in one run, a pair found stale whose image loaded has its output
\* file written exactly once; a pair found up to date has its output file
\* left as it was when the pair was tested: no later write to it, and the
\* same modification time.
C11_StaleOnceFreshUntouched ==
    \A c \in checked :
       /\ (c.result = "True" /\ LoadedOk(c))
             => /\ Cardinality(WritesOfPair(c.input, c.preset)) = 1
                /\ Cardinality(WritesTo(get_output_path(c.input, c.preset))) = 1
       /\ c.result = "False"
             => /\ \A j \in WritesTo(get_output_path(c.input, c.preset)) : j <= c.writes
                /\ Stat(OutputFolder, get_output_path(c.input, c.preset)) = c.output_stat

\* a run that discovered an image and reached its final report
TallyPrinted == pc = "done" /\ printed = "Done" /\ discovered # {}

FoundUpToDate == {c \in checked : c.result = "False"}

\* C12: in the tally of a run that discovered an image, generated is the
\* number of output files written, skipped is the number of pairs found up
\* to date, and the two add up to the number of discovered images times the
\* number of presets.
C12_TallyCountsEveryPair ==
    TallyPrinted =>
       /\ processed = Len(writeLog)
       /\ skipped = Cardinality(FoundUpToDate)
       /\ processed + skipped = Cardinality(discovered) * Len(ALL_PRESET_NAMES)

====
